---- MODULE Spec2Model ----
(***************************************************************************)
(* A model of ChangeDataDict (main.py): a dictionary that keeps, per key,  *)
(* the ordered history of its change actions (insert, update, delete) and  *)
(* answers reads under a lookup type (LAST, FIRST, TIMESTAMP).             *)
(*                                                                         *)
(* Encoding of Python values                                               *)
(*   - an optional integer (lookup_ts, set_ts, prior_ts, an argument that  *)
(*     may be a non-integer) is a sequence of length <= 1: None is << >>,  *)
(*     the integer n is <<n>>;                                             *)
(*   - a payload is written as the string of its Python literal, so that   *)
(*     Python's == on the payloads used here is string equality: "5",      *)
(*     "None", and the tuple "(None, 'DELETED')";                          *)
(*   - an item (one dict of a key's history) is a function whose DOMAIN    *)
(*     is the set of the dict's keys: "ts", "value", and "del",            *)
(*     "version", "source" when the code puts them in;                     *)
(*   - _store is a function whose DOMAIN is the set of keys in the dict.   *)
(* The source is Python 2 (collections.MutableMapping, iteritems): there   *)
(* every integer compares greater than None.                               *)
(***************************************************************************)
EXTENDS Integers, Sequences, FiniteSets, TLC

VARIABLES
    phase,        \* "new": fields initialised (lines 72-79); "live"; "failed"
    store,        \* self._store
    lookup_type,  \* self._lookup_type
    lookup_ts,    \* self._lookup_ts
    latest_ts,    \* self._latest_ts
    set_ts,       \* self._set_ts
    lazy_update,  \* self._lazy_update
    version,      \* self._version
    source,       \* self._source
    now,          \* the last reading of the wall clock (seconds)
    result        \* the call that has just returned: its name, arguments,
                  \* exception and return value; NoCall between two calls

vars == <<phase, store, lookup_type, lookup_ts, latest_ts, set_ts,
          lazy_update, version, source, now, result>>

config == <<lookup_type, lookup_ts>>
tags == <<lazy_update, version, source>>

----------------------------------------------------------------------------
(* class LookupType *)

LAST == 1

FIRST == 2

TIMESTAMP == 3

(* class attributes of ChangeDataDict *)

DELETED == "(None, 'DELETED')"

NON_EXISTENT == "(None, 'NON_EXISTENT')"

----------------------------------------------------------------------------
(* Bounds of the model *)

\* timestamps (clock readings, pins, lookup timestamps) range over 0..MaxTs
MaxTs == 2

\* set and delete are not explored once the store holds MaxItems items
MaxItems == 3

Keys == {1, 2}

None == << >>

Some(n) == <<n>>

PyNone == "None"

\* the payloads offered to set and to the seed: an integer, None, and a
\* tuple equal to the class attribute DELETED
Values == {"5", PyNone, DELETED}

Timestamps == 0 .. MaxTs

OptTs == {None} \cup {Some(t) : t \in Timestamps}

\* arguments offered to the integer-checked setters: None (not an int)
\* and the timestamps
IntArgs == OptTs

\* arguments offered to the lookup_type setter: the lookup types and one
\* value that is none of them
TypeArgs == 1 .. 4

Tags == {None, <<"t">>}

\* the comparison arguments offered to diff: a lookup timestamp only with
\* TIMESTAMP, the one lookup type that reads it
DiffArgs ==
    {<<LAST, None>>, <<FIRST, None>>} \cup {<<TIMESTAMP, lts>> : lts \in OptTs}

----------------------------------------------------------------------------
(* Helpers over items and histories *)

\* item.get('del', False)
IsDel(item) == IF "del" \in DOMAIN item THEN item["del"] ELSE FALSE

\* history[-1]
Last(history) == history[Len(history)]

\* the loop test with >= written for >
PyGreaterOrEqual(ts, lts) == IF lts = None THEN TRUE ELSE ts >= lts[1]

\* Python 2: ts > lookup_ts, where lookup_ts may be None
PyGreater(ts, lts) == IF lts = None THEN TRUE ELSE ts > lts[1]

\* the for loop of _get_item (lines 151-154), from position i with cur_item
RECURSIVE ScanTimestamp(_, _, _, _)
ScanTimestamp(history, i, lts, cur_item) ==
    IF i > Len(history) THEN cur_item
    ELSE IF PyGreater(history[i]["ts"], lts) THEN cur_item
    ELSE ScanTimestamp(history, i + 1, lts, Some(history[i]))

\* _get_item: the resolved item as an optional (None when nothing resolves).
\* Raises KeyError when key is not in _store: callers test that first.
GetItemOf(key, ltype, lts) ==
    LET history == store[key] IN
    IF ltype = LAST THEN Some(Last(history))
    ELSE IF ltype = FIRST THEN Some(history[1])
    ELSE IF ltype = TIMESTAMP THEN ScanTimestamp(history, 1, lts, None)
    ELSE None

\* get_item
get_item(key) == GetItemOf(key, lookup_type, lookup_ts)

\* __getitem__: [exc, ret]
GetItemResult(key) ==
    IF key \notin DOMAIN store THEN [exc |-> "KeyError", ret |-> PyNone]
    ELSE LET cur_item == get_item(key) IN
         IF cur_item = None THEN [exc |-> "KeyError", ret |-> PyNone]
         ELSE IF IsDel(cur_item[1]) THEN [exc |-> "KeyError", ret |-> PyNone]
         ELSE [exc |-> "None", ret |-> cur_item[1]["value"]]

\* prior_ts
prior_ts(key) ==
    IF key \in DOMAIN store THEN Some(Last(store[key])["ts"]) ELSE None

\* prior_value_is_equal
prior_value_is_equal(key, value) ==
    IF key \in DOMAIN store THEN Last(store[key])["value"] = value ELSE FALSE

\* prior_item_is_deleted
prior_item_is_deleted(key) ==
    IF key \in DOMAIN store THEN IsDel(Last(store[key])) ELSE FALSE

\* the ordering test with > written for >=: an equal timestamp passes
OrderingErrorOnLess(prior, ts) == prior # None /\ prior[1] > ts

\* the ordering test of _create_item (line 173)
OrderingError(prior, ts) == prior # None /\ prior[1] >= ts

\* _create_item without the assignment of line 175
NewLatestTsKept(ts) == latest_ts

\* the value _create_item assigns to _latest_ts (line 175)
NewLatestTs(ts) == ts

\* the dict _create_item builds (lines 176-183)
MakeItem(ts, value, delete) ==
    LET base == [ts |-> ts, value |-> value]
        d == IF delete THEN base @@ [del |-> TRUE] ELSE base
        v == IF version # None THEN d @@ [version |-> version[1]] ELSE d
    IN IF source # None THEN v @@ [source |-> source[1]] ELSE v

\* the timestamps _create_item may take: the pin, or a reading of the clock,
\* which never runs backwards
CandidateTs == IF set_ts # None THEN {set_ts[1]} ELSE now .. MaxTs

\* the number of items in the store
RECURSIVE ItemCount(_, _)
ItemCount(st, keys) ==
    IF keys = {} THEN 0
    ELSE LET k == CHOOSE x \in keys : TRUE
         IN Len(st[k]) + ItemCount(st, keys \ {k})

Room == ItemCount(store, DOMAIN store) < MaxItems

\* self._store[key] = [item]: the list is replaced, not appended to
AppendedReplacing(st, key, item) ==
    [k \in DOMAIN st \cup {key} |-> IF k = key THEN <<item>> ELSE st[k]]

\* self._store[key].append(item), creating the list first when key is new
Appended(st, key, item) ==
    [k \in DOMAIN st \cup {key} |->
        IF k = key
        THEN (IF key \in DOMAIN st THEN Append(st[key], item) ELSE <<item>>)
        ELSE st[k]]

----------------------------------------------------------------------------
(* Pure readings of the state: what the read methods compute *)

\* __iter__ run to the end: item.get raises AttributeError on a key whose
\* resolved item is None; otherwise the keys whose item is not deleted are
\* yielded.  The keys are visited in the dict's order, which the program
\* does not control, so the yielded keys are kept as a set.
IterResult ==
    IF \E k \in DOMAIN store : get_item(k) = None
    THEN [exc |-> "AttributeError", ret |-> {}]
    ELSE [exc |-> "None",
          ret |-> {k \in DOMAIN store : ~IsDel(get_item(k)[1])}]

\* __len__ counting only the keys whose last item is not a deletion
LenResultLive == Cardinality({k \in DOMAIN store : ~IsDel(Last(store[k]))})

\* __len__
LenResult == Cardinality(DOMAIN store)

\* to_value of diff
to_value(item) ==
    IF item = None THEN NON_EXISTENT
    ELSE IF IsDel(item[1]) THEN DELETED
    ELSE item[1]["value"]

\* diff: the dict it returns
DiffResult(ltype, lts) ==
    LET value(k) == to_value(get_item(k))
        comp_value(k) == to_value(GetItemOf(k, ltype, lts))
        changed == {k \in DOMAIN store : value(k) # comp_value(k)}
    IN [k \in changed |-> <<value(k), comp_value(k)>>]

\* to_dict: [exc, ret]; the snapshot is dict(self.iteritems()), where
\* iteritems yields (key, self[key]) for every key __iter__ yields
ToDictResult(snapshot) ==
    IF ~snapshot THEN [exc |-> "None", ret |-> store]
    ELSE IF IterResult.exc # "None" THEN [exc |-> IterResult.exc, ret |-> << >>]
    ELSE IF \E k \in IterResult.ret : GetItemResult(k).exc # "None"
    THEN [exc |-> "KeyError", ret |-> << >>]
    ELSE [exc |-> "None", ret |-> [k \in IterResult.ret |-> GetItemResult(k).ret]]

\* json.dumps of a payload: None is null, a tuple is an array
JsonValue(v) ==
    CASE v = PyNone -> "null"
      [] v = DELETED -> "[null, \"DELETED\"]"
      [] v = NON_EXISTENT -> "[null, \"NON_EXISTENT\"]"
      [] OTHER -> v

\* json.dumps of an item: ts is a number, del is True, the rest are payloads
JsonItem(item) ==
    [f \in DOMAIN item |->
        IF f = "ts" THEN ToString(item[f])
        ELSE IF f = "del" THEN "true"
        ELSE JsonValue(item[f])]

\* json.dumps of the dict d returned by to_dict: the keys become strings, and
\* the order of the members, which the dict decides, is not kept
JsonDumps(d, snapshot) ==
    [s \in {ToString(k) : k \in DOMAIN d} |->
        LET k == CHOOSE j \in DOMAIN d : ToString(j) = s
        IN IF snapshot THEN JsonValue(d[k])
           ELSE [i \in 1 .. Len(d[k]) |-> JsonItem(d[k][i])]]

\* to_json: [exc, ret]
ToJsonResult(snapshot) ==
    IF ToDictResult(snapshot).exc # "None"
    THEN [exc |-> ToDictResult(snapshot).exc, ret |-> << >>]
    ELSE [exc |-> "None", ret |-> JsonDumps(ToDictResult(snapshot).ret, snapshot)]

----------------------------------------------------------------------------
(* Arguments of the constructor *)

\* the seed mappings; the empty one is dic={}, and stands for dic=None too
\* (update of an empty dict writes nothing)
Dicts == UNION {[D -> Values] : D \in SUBSET Keys}

\* the set_ts arguments offered to the constructor: those of the setter and
\* an integer below the initial latest_ts
InitTsArgs == IntArgs \cup {Some(-1)}

\* the setter test without the comparison with latest_ts
SetTsAcceptedAnyInt(value) == value # None

\* the test of the set_ts setter (line 125)
SetTsAccepted(value) == value # None /\ value[1] >= latest_ts

\* the test of the lookup_type setter (line 98)
LookupTypeAccepted(value) == value \in 1 .. 3

\* the test of the lookup_ts setter (lines 109-110), under lookup type ltype
LookupTsAccepted(ltype, value) == ltype = TIMESTAMP /\ value # None

\* update(dic) run before the set_ts setter: the seeds take the clock's time
SeededAtClock(dic, tsOf) == [k \in DOMAIN dic |-> <<MakeItem(now, dic[k], FALSE)>>]

\* update(dic) on the empty store: one __setitem__ per key, in the order of
\* the seed dict, each with the timestamp tsOf[key] that _create_item takes
Seeded(dic, tsOf) == [k \in DOMAIN dic |-> <<MakeItem(tsOf[k], dic[k], FALSE)>>]

\* the timestamp of the last seed written (keys are written in ascending order)
LastSeedTs(dic, tsOf) == tsOf[CHOOSE k \in DOMAIN dic : \A j \in DOMAIN dic : j <= k]

----------------------------------------------------------------------------
NoCall == [op |-> "none", exc |-> "None"]

\* the caller is between two calls
Idle == result = NoCall

Init ==
    /\ phase = "new"
    /\ store = << >>
    /\ lookup_type = LAST
    /\ lookup_ts = None
    /\ latest_ts = 0
    /\ set_ts = None
    /\ lazy_update \in BOOLEAN
    /\ version = None
    /\ source = None
    /\ now = 0
    /\ result = NoCall

\* what the caller sees of ChangeDataDict(dic=, lookup_type=, lookup_ts=,
\* set_ts=): the arguments, and the exception of the setter that raised
InitResult(dic, lt, lts, sts, exc) ==
    [op |-> "__init__", dic |-> dic, lookup_type |-> lt, lookup_ts |-> lts,
     set_ts |-> sts, exc |-> exc]

\* __init__ (lines 81-90): lt = 0 stands for lookup_type=None, and None for
\* lookup_ts=None and set_ts=None.  The steps run in the order of the code:
\* the set_ts setter, update(dic), the lookup_type setter, the lookup_ts
\* setter; a setter that raises ends __init__ with the fields as they are.
Construct(dic, lt, lts, sts) ==
    /\ phase = "new"
    /\ Idle
    /\ UNCHANGED tags
    /\ IF sts # None /\ ~SetTsAccepted(sts)
       THEN /\ phase' = "failed"
            /\ result' = InitResult(dic, lt, lts, sts, "ValueError")
            /\ UNCHANGED <<store, config, latest_ts, set_ts, now>>
       ELSE \E tsOf \in [DOMAIN dic -> IF sts # None THEN {sts[1]} ELSE now .. MaxTs] :
            /\ \A j, k \in DOMAIN dic : j <= k => tsOf[j] <= tsOf[k]
            /\ set_ts' = sts
            /\ store' = Seeded(dic, tsOf)
            /\ latest_ts' = IF DOMAIN dic = {} THEN latest_ts
                            ELSE NewLatestTs(LastSeedTs(dic, tsOf))
            /\ now' = IF DOMAIN dic = {} \/ sts # None THEN now
                      ELSE LastSeedTs(dic, tsOf)
            /\ IF lt # 0 /\ ~LookupTypeAccepted(lt)
               THEN /\ phase' = "failed"
                    /\ result' = InitResult(dic, lt, lts, sts, "ValueError")
                    /\ UNCHANGED config
               ELSE LET ltype == IF lt # 0 THEN lt ELSE lookup_type IN
                    /\ lookup_type' = ltype
                    /\ IF lts # None /\ ~LookupTsAccepted(ltype, lts)
                       THEN /\ phase' = "failed"
                            /\ result' = InitResult(dic, lt, lts, sts, "ValueError")
                            /\ lookup_ts' = lookup_ts
                       ELSE /\ phase' = "live"
                            /\ result' = InitResult(dic, lt, lts, sts, "None")
                            /\ lookup_ts' = lts

\* a lookup_type setter that assigns the field before it tests the value
SetLookupTypeAssignFirst(value) ==
    /\ phase = "live"
    /\ Idle
    /\ lookup_type' = value
    /\ result' = [op |-> "lookup_type", value |-> value,
                  exc |-> IF LookupTypeAccepted(value) THEN "None" ELSE "ValueError"]
    /\ UNCHANGED <<phase, store, lookup_ts, latest_ts, set_ts, tags, now>>

\* lookup_type setter
SetLookupType(value) ==
    /\ phase = "live"
    /\ Idle
    /\ IF LookupTypeAccepted(value)
       THEN /\ lookup_type' = value
            /\ result' = [op |-> "lookup_type", value |-> value, exc |-> "None"]
       ELSE /\ lookup_type' = lookup_type
            /\ result' = [op |-> "lookup_type", value |-> value, exc |-> "ValueError"]
    /\ UNCHANGED <<phase, store, lookup_ts, latest_ts, set_ts, tags, now>>

\* lookup_ts setter
SetLookupTs(value) ==
    /\ phase = "live"
    /\ Idle
    /\ IF LookupTsAccepted(lookup_type, value)
       THEN /\ lookup_ts' = value
            /\ result' = [op |-> "lookup_ts", value |-> value, exc |-> "None"]
       ELSE /\ lookup_ts' = lookup_ts
            /\ result' = [op |-> "lookup_ts", value |-> value, exc |-> "ValueError"]
    /\ UNCHANGED <<phase, store, lookup_type, latest_ts, set_ts, tags, now>>

\* set_ts setter
SetSetTs(value) ==
    /\ phase = "live"
    /\ Idle
    /\ IF SetTsAccepted(value)
       THEN /\ set_ts' = value
            /\ result' = [op |-> "set_ts", value |-> value, exc |-> "None"]
       ELSE /\ set_ts' = set_ts
            /\ result' = [op |-> "set_ts", value |-> value, exc |-> "ValueError"]
    /\ UNCHANGED <<phase, store, config, latest_ts, tags, now>>

\* _create_item with the timestamp ts it took, followed by the append of
\* the caller; a ValueError leaves _latest_ts and _store as they were
CreateAndAppend(op, key, value, delete, ts) ==
    /\ now' = IF set_ts # None THEN now ELSE ts
    /\ IF OrderingError(prior_ts(key), ts)
       THEN /\ result' = [op |-> op, key |-> key, value |-> value, exc |-> "ValueError"]
            /\ UNCHANGED <<store, latest_ts>>
       ELSE /\ latest_ts' = NewLatestTs(ts)
            /\ store' = Appended(store, key, MakeItem(ts, value, delete))
            /\ result' = [op |-> op, key |-> key, value |-> value, exc |-> "None"]

\* whether __setitem__ returns at line 198
LazySkip(key, value) == lazy_update /\ prior_value_is_equal(key, value)

\* __setitem__
SetItem(key, value) ==
    /\ phase = "live"
    /\ Idle
    /\ Room
    /\ IF LazySkip(key, value)
       THEN /\ result' = [op |-> "set", key |-> key, value |-> value, exc |-> "None"]
            /\ UNCHANGED <<store, latest_ts, now>>
       ELSE \E ts \in CandidateTs : CreateAndAppend("set", key, value, FALSE, ts)
    /\ UNCHANGED <<phase, config, set_ts, tags>>

\* __delitem__ without the test of lines 213-214
DeleteMissingKeyOnly(key) == key \notin DOMAIN store

\* whether __delitem__ raises KeyError (lines 211-214)
DeleteMissing(key) == key \notin DOMAIN store \/ prior_item_is_deleted(key)

\* __delitem__
DelItem(key) ==
    /\ phase = "live"
    /\ Idle
    /\ Room
    /\ IF DeleteMissing(key)
       THEN /\ result' = [op |-> "del", key |-> key, value |-> PyNone, exc |-> "KeyError"]
            /\ UNCHANGED <<store, latest_ts, now>>
       ELSE \E ts \in CandidateTs : CreateAndAppend("del", key, PyNone, TRUE, ts)
    /\ UNCHANGED <<phase, config, set_ts, tags>>

\* __getitem__
GetItem(key) ==
    /\ phase = "live"
    /\ Idle
    /\ result' = [op |-> "get", key |-> key, exc |-> GetItemResult(key).exc,
                  ret |-> GetItemResult(key).ret]
    /\ UNCHANGED <<phase, store, config, latest_ts, set_ts, tags, now>>

\* an iteration that switches the lookup to LAST to find the live keys
IterAsLast ==
    /\ phase = "live"
    /\ Idle
    /\ result' = [op |-> "iter", exc |-> IterResult.exc, ret |-> IterResult.ret]
    /\ lookup_type' = LAST
    /\ UNCHANGED <<phase, store, lookup_ts, latest_ts, set_ts, tags, now>>

\* list(self): __iter__ run to the end
Iter ==
    /\ phase = "live"
    /\ Idle
    /\ result' = [op |-> "iter", exc |-> IterResult.exc, ret |-> IterResult.ret]
    /\ UNCHANGED <<phase, store, config, latest_ts, set_ts, tags, now>>

\* __len__
Length ==
    /\ phase = "live"
    /\ Idle
    /\ result' = [op |-> "len", exc |-> "None", ret |-> LenResult]
    /\ UNCHANGED <<phase, store, config, latest_ts, set_ts, tags, now>>

\* diff
Diff(ltype, lts) ==
    /\ phase = "live"
    /\ Idle
    /\ result' = [op |-> "diff", ltype |-> ltype, lts |-> lts, exc |-> "None",
                  ret |-> DiffResult(ltype, lts)]
    /\ UNCHANGED <<phase, store, config, latest_ts, set_ts, tags, now>>

\* to_dict
ToDict(snapshot) ==
    /\ phase = "live"
    /\ Idle
    /\ result' = [op |-> "to_dict", snapshot |-> snapshot,
                  exc |-> ToDictResult(snapshot).exc,
                  ret |-> ToDictResult(snapshot).ret]
    /\ UNCHANGED <<phase, store, config, latest_ts, set_ts, tags, now>>

\* to_json
ToJson(snapshot) ==
    /\ phase = "live"
    /\ Idle
    /\ result' = [op |-> "to_json", snapshot |-> snapshot,
                  exc |-> ToJsonResult(snapshot).exc,
                  ret |-> ToJsonResult(snapshot).ret]
    /\ UNCHANGED <<phase, store, config, latest_ts, set_ts, tags, now>>

\* the caller takes the outcome of the call and goes on (calls are
\* synchronous and made one at a time)
Return ==
    /\ ~Idle
    /\ result' = NoCall
    /\ UNCHANGED <<phase, store, config, latest_ts, set_ts, tags, now>>

\* ChangeDataDict(dic=, lookup_type=, lookup_ts=, set_ts=)
New ==
    /\ phase = "new"
    /\ \E dic \in Dicts, lt \in {0} \cup TypeArgs, lts \in IntArgs, sts \in InitTsArgs :
          Construct(dic, lt, lts, sts)

Next ==
    \/ New
    \/ \E v \in TypeArgs : SetLookupType(v)
    \/ \E v \in IntArgs : SetLookupTs(v)
    \/ \E v \in IntArgs : SetSetTs(v)
    \/ \E k \in Keys, v \in Values : SetItem(k, v)
    \/ \E k \in Keys : DelItem(k)
    \/ \E k \in Keys : GetItem(k)
    \/ Iter
    \/ Length
    \/ \E a \in DiffArgs : Diff(a[1], a[2])
    \/ \E b \in BOOLEAN : ToDict(b)
    \/ \E b \in BOOLEAN : ToJson(b)
    \/ Return

Spec == Init /\ [][Next]_vars

----------------------------------------------------------------------------
(* Vocabulary of the properties *)

\* the step is a call of op that has just returned
Called(op) == result = NoCall /\ result'.op = op

\* the timestamp the step's set or delete was given: the pin, or the clock
\* reading taken in the step
Candidate == IF set_ts # None THEN set_ts[1] ELSE now'

HasHistory(k) == k \in DOMAIN store

\* a record marked as a deletion
Tombstone(item) == "del" \in DOMAIN item

LastRecord(k) == store[k][Len(store[k])]

Tombstoned(k) == HasHistory(k) /\ Tombstone(LastRecord(k))

\* the timestamps of all records of all keys
AllTimestamps == UNION {{store[k][i]["ts"] : i \in 1 .. Len(store[k])} : k \in DOMAIN store}

----------------------------------------------------------------------------
\* C1: in every reachable state, the timestamps of each key's history are
\* strictly increasing in sequence order.
C1_StrictlyIncreasing ==
    \A k \in DOMAIN store :
        \A i \in 1 .. Len(store[k]) - 1 : store[k][i]["ts"] < store[k][i + 1]["ts"]

\* a key with three records, reached with a pin and a lookup type other
\* than LAST in force
C1_Witness ==
    /\ \E k \in DOMAIN store : Len(store[k]) = 3 /\ Tombstone(store[k][2])
    /\ set_ts # None
    /\ lookup_type = TIMESTAMP

\* C2 (as stated, for the pinned timestamp it singles out): with a pin set,
\* a set not suppressed by lazy update, or a delete, on a key that has
\* history raises the ordering error exactly when the pin is <= the
\* timestamp of the key's most recent record, and the rejected call leaves
\* the history as it was.
C2_OrderingErrorAsStated ==
    [][\A k \in Keys :
         ((Called("set") \/ Called("del")) /\ result'.key = k /\ HasHistory(k)
            /\ set_ts # None
            /\ ~(result'.op = "set" /\ result'.exc = "None" /\ store' = store))
         => /\ result'.exc = "ValueError" <=> Candidate <= LastRecord(k)["ts"]
            /\ result'.exc = "ValueError" => store' = store]_vars

\* C2 (amended): the same for a set not suppressed by lazy update and for a
\* delete of a key whose most recent record is not a tombstone; a delete of
\* a tombstoned key raises KeyError whatever the timestamp.
C2_OrderingError ==
    [][\A k \in Keys :
         ((Called("set") \/ Called("del")) /\ result'.key = k /\ HasHistory(k)
            /\ ~(result'.op = "set" /\ result'.exc = "None" /\ store' = store))
         => IF result'.op = "del" /\ Tombstoned(k)
            THEN result'.exc = "KeyError" /\ store' = store
            ELSE /\ result'.exc = "ValueError" <=> Candidate <= LastRecord(k)["ts"]
                 /\ result'.exc = "ValueError" => store' = store]_vars

\* a second mutation of a key under an unchanged pin has been rejected
C2_Witness ==
    /\ result.op = "set"
    /\ result.exc = "ValueError"
    /\ set_ts # None
    /\ HasHistory(result.key)
    /\ set_ts[1] = LastRecord(result.key)["ts"]

\* C3: latest_ts never decreases, is >= the timestamp of the most recent
\* record of every key, and is the greatest timestamp assigned so far.
C3_LatestTs ==
    /\ [](\A k \in DOMAIN store : latest_ts >= LastRecord(k)["ts"])
    /\ [](\A t \in AllTimestamps : latest_ts >= t)
    /\ [](DOMAIN store # {} => latest_ts \in AllTimestamps)
    /\ [][latest_ts' >= latest_ts]_vars

\* two keys whose most recent records have different timestamps, the later
\* one written on the key that is not the last one written
C3_Witness ==
    /\ DOMAIN store = Keys
    /\ LastRecord(1)["ts"] > LastRecord(2)["ts"]
    /\ Len(store[2]) = 2
    /\ latest_ts = LastRecord(1)["ts"]

\* C4 (as stated): every accepted change of the pinned timestamp sets it to
\* a value not less than the previously pinned value.
C4_PinNonDecreasingAsStated ==
    [][(set_ts # None /\ set_ts' # set_ts) => set_ts'[1] >= set_ts[1]]_vars

\* C4 (amended): every accepted change of the pinned timestamp sets it to a
\* value not less than latest_ts, the greatest timestamp assigned so far; it
\* may be lower than a previous pin that no set or delete has used.
C4_PinNotBelowLatest ==
    [][(Called("set_ts") /\ result'.exc = "None")
          => set_ts' # None /\ set_ts'[1] >= latest_ts]_vars

\* the pin has been moved past timestamps already assigned
C4_Witness ==
    /\ result.op = "set_ts"
    /\ result.exc = "None"
    /\ latest_ts > 0
    /\ set_ts[1] > latest_ts

\* the greatest element of a non-empty set of integers
Greatest(S) == CHOOSE x \in S : \A y \in S : y <= x

\* the record of k that a lookup (ltype, lts) designates, None when there is
\* none: the last one, the first one, or the last one whose timestamp is
\* <= lts
Resolved(k, ltype, lts) ==
    LET h == store[k]
        upto == {i \in 1 .. Len(h) : h[i]["ts"] <= lts[1]}
    IN IF ltype = LAST THEN Some(h[Len(h)])
       ELSE IF ltype = FIRST THEN Some(h[1])
       ELSE IF upto = {} THEN None
       ELSE Some(h[Greatest(upto)])

\* k is present under the lookup (ltype, lts)
Present(k, ltype, lts) ==
    /\ HasHistory(k)
    /\ Resolved(k, ltype, lts) # None
    /\ ~Tombstone(Resolved(k, ltype, lts)[1])

\* the lookup timestamp is an integer whenever the lookup type reads it
LookupDefined == lookup_type = TIMESTAMP => lookup_ts # None

\* C5: get(k) returns the value of the record that (history, lookup type,
\* lookup timestamp) designate, and raises KeyError exactly when k has no
\* history, no record is designated, or the designated record is a tombstone
\* (for TIMESTAMP: with an integer lookup timestamp).
C5_Get ==
    (result.op = "get" /\ LookupDefined) =>
        LET k == result.key IN
        IF Present(k, lookup_type, lookup_ts)
        THEN /\ result.exc = "None"
             /\ result.ret = Resolved(k, lookup_type, lookup_ts)[1]["value"]
        ELSE result.exc = "KeyError"

\* a get by timestamp that returned the value of a record that is neither
\* the first nor the last of the key's history
C5_Witness ==
    /\ result.op = "get"
    /\ result.exc = "None"
    /\ lookup_type = TIMESTAMP
    /\ lookup_ts # None
    /\ Len(store[result.key]) = 3
    /\ lookup_ts[1] >= store[result.key][2]["ts"]
    /\ lookup_ts[1] < store[result.key][3]["ts"]
    /\ result.ret # store[result.key][1]["value"]

\* C6: delete(k) raises KeyError exactly when k has no history or its most
\* recent record is a tombstone, whatever the lookup type; otherwise, given a
\* timestamp greater than that of the most recent record, it appends exactly
\* one tombstone to k's history and changes no other key's history.
C6_Delete ==
    [][\A k \in Keys :
         (Called("del") /\ result'.key = k)
         => /\ result'.exc = "KeyError" <=> (~HasHistory(k) \/ Tombstoned(k))
            /\ result'.exc = "KeyError" => store' = store
            /\ (result'.exc # "KeyError" /\ Candidate > LastRecord(k)["ts"])
               => /\ result'.exc = "None"
                  /\ DOMAIN store' = DOMAIN store
                  /\ Len(store'[k]) = Len(store[k]) + 1
                  /\ SubSeq(store'[k], 1, Len(store[k])) = store[k]
                  /\ Tombstone(store'[k][Len(store'[k])])
                  /\ store'[k][Len(store'[k])]["ts"] = Candidate
                  /\ \A j \in DOMAIN store \ {k} : store'[j] = store[j]]_vars

\* a delete has appended a tombstone under FIRST, where the key stays
\* readable, with another key in the store
C6_Witness ==
    /\ result.op = "del"
    /\ result.exc = "None"
    /\ lookup_type = FIRST
    /\ DOMAIN store = Keys
    /\ Tombstoned(result.key)

\* C7: with lazy update, set(k, v) does nothing (no record appended, no
\* timestamp assigned) exactly when k's most recent record is not a
\* tombstone and its value equals v.
C7_LazyUpdate ==
    [][\A k \in Keys :
         (Called("set") /\ result'.key = k /\ lazy_update /\ result'.exc = "None")
         => ((store' = store /\ latest_ts' = latest_ts)
              <=> (HasHistory(k) /\ ~Tombstoned(k)
                     /\ LastRecord(k)["value"] = result'.value))]_vars

\* the classification diff compares: NON_EXISTENT, DELETED, or a payload,
\* three kinds apart from one another
Classified(item) ==
    IF item = None THEN <<"NON_EXISTENT">>
    ELSE IF Tombstone(item[1]) THEN <<"DELETED">>
    ELSE <<"value", item[1]["value"]>>

\* what diff shows of a classification
Shown(c) ==
    IF c[1] = "NON_EXISTENT" THEN NON_EXISTENT
    ELSE IF c[1] = "DELETED" THEN DELETED
    ELSE c[2]

\* C8: diff returns a mapping that holds k exactly when k has history and
\* its classification under the active lookup differs from the one under the
\* comparison lookup, DELETED and NON_EXISTENT being distinct from each
\* other and from every payload; the entry is the pair of the two.
C8_Diff ==
    (result.op = "diff" /\ LookupDefined
       /\ (result.ltype = TIMESTAMP => result.lts # None)) =>
        LET cur(k) == Classified(Resolved(k, lookup_type, lookup_ts))
            cmp(k) == Classified(Resolved(k, result.ltype, result.lts))
        IN /\ DOMAIN result.ret = {k \in DOMAIN store : cur(k) # cmp(k)}
           /\ \A k \in DOMAIN result.ret :
                 result.ret[k] = <<Shown(cur(k)), Shown(cmp(k))>>

\* C9: under every lookup type and lookup timestamp, a full iteration ends
\* without error and yields exactly the keys for which get returns a value.
C9_Iteration ==
    (result.op = "iter" /\ LookupDefined) =>
        /\ result.exc = "None"
        /\ result.ret = {k \in Keys : Present(k, lookup_type, lookup_ts)}

\* C10: to_dict(snapshot=True) returns {k: get(k)} over exactly the keys
\* for which get returns a value; to_dict(snapshot=False) returns every key
\* with history mapped to its full record sequence.
C10_ToDict ==
    (result.op = "to_dict" /\ LookupDefined) =>
        /\ result.exc = "None"
        /\ IF result.snapshot
           THEN LET live == {k \in Keys : Present(k, lookup_type, lookup_ts)}
                IN result.ret =
                     [k \in live |-> Resolved(k, lookup_type, lookup_ts)[1]["value"]]
           ELSE result.ret = store

\* the keys that have history
Historied == {k \in Keys : HasHistory(k)}

\* C11: len is the number of keys that have history, tombstoned keys
\* included; it never decreases, a delete and a change of the lookup type or
\* lookup timestamp leave it as it was, and it is >= the number of keys an
\* iteration yields.
C11_Length ==
    /\ [](result.op = "len" => result.ret = Cardinality(Historied))
    /\ [](result.op = "iter" => Cardinality(result.ret) <= LenResult)
    /\ [][LenResult' >= LenResult]_vars
    /\ [][(Called("del") \/ Called("lookup_type") \/ Called("lookup_ts"))
            => LenResult' = LenResult]_vars

\* len has counted a tombstoned key that the iteration under LAST leaves out
C11_Witness ==
    /\ result.op = "len"
    /\ result.ret = 2
    /\ lookup_type = LAST
    /\ Tombstoned(1)
    /\ Cardinality(IterResult.ret) = 1

\* the number of records of k in the store st (0 without history)
HistoryLen(st, k) == IF k \in DOMAIN st THEN Len(st[k]) ELSE 0

\* every key's history before the step is a prefix of its history after it
PrefixKept ==
    \A k \in DOMAIN store :
        /\ k \in DOMAIN store'
        /\ Len(store'[k]) >= Len(store[k])
        /\ SubSeq(store'[k], 1, Len(store[k])) = store[k]

\* the step extends the history of k by one record and no other history
ExtendsOnly(k) ==
    /\ HistoryLen(store', k) = HistoryLen(store, k) + 1
    /\ \A j \in Keys \ {k} : HistoryLen(store', j) = HistoryLen(store, j)

\* C12 (as stated): every step keeps every key's history as a prefix of its
\* new history, and a set or delete that returns without error extends
\* exactly one key's history by exactly one record.
C12_AppendOnlyAsStated ==
    [][/\ PrefixKept
       /\ ((Called("set") \/ Called("del")) /\ result'.exc = "None")
            => ExtendsOnly(result'.key)]_vars

\* C12 (amended): every step keeps every key's history as a prefix of its
\* new history; a delete that returns without error, and a set that returns
\* without error and is not suppressed by lazy update, extends exactly one
\* key's history by exactly one record; a suppressed set extends none.
C12_AppendOnly ==
    [][/\ PrefixKept
       /\ ((Called("set") \/ Called("del")) /\ result'.exc = "None")
            => IF /\ result'.op = "set"
                  /\ lazy_update
                  /\ HasHistory(result'.key)
                  /\ LastRecord(result'.key)["value"] = result'.value
               THEN store' = store
               ELSE ExtendsOnly(result'.key)]_vars

\* a set has extended the history of a key, with another key in the store
C12_Witness ==
    /\ result.op = "set"
    /\ result.exc = "None"
    /\ DOMAIN store = Keys
    /\ Len(store[result.key]) = 2
    /\ store[result.key][2]["value"] = result.value

----------------------------------------------------------------------------
\* the read operations
ReadOps == {"get", "iter", "len", "diff", "to_dict", "to_json"}

\* what the read recorded in result returns when made in the current state
ReadAgain ==
    CASE result.op = "get" -> GetItemResult(result.key)
      [] result.op = "iter" -> IterResult
      [] result.op = "len" -> [exc |-> "None", ret |-> LenResult]
      [] result.op = "diff" ->
            [exc |-> "None", ret |-> DiffResult(result.ltype, result.lts)]
      [] result.op = "to_dict" -> ToDictResult(result.snapshot)
      [] result.op = "to_json" -> ToJsonResult(result.snapshot)

\* C13: a read (get, iteration, len, diff, to_dict, to_json) leaves the
\* histories, latest_ts, the pinned timestamp, the lookup type and the lookup
\* timestamp unchanged, whether it returns or raises; so the same read made
\* again in the state it leaves gives the result it gave.
C13_ReadsChangeNothing ==
    [][(result = NoCall /\ result'.op \in ReadOps) =>
          /\ store' = store
          /\ latest_ts' = latest_ts
          /\ set_ts' = set_ts
          /\ config' = config
          /\ ReadAgain' = [exc |-> result'.exc, ret |-> result'.ret]]_vars

\* to_json of the snapshot has raised on a store with two keys, one of them
\* with no record at or before the lookup timestamp
C13_Witness ==
    /\ result.op = "to_json"
    /\ result.snapshot
    /\ result.exc = "AttributeError"
    /\ DOMAIN store = Keys
    /\ lookup_type = TIMESTAMP
    /\ \E k \in Keys : get_item(k) # None

----------------------------------------------------------------------------
\* C14: every tombstone of every history has the delete flag set and no
\* value field; every other record has a value field and no delete flag.
C14_RecordShape ==
    \A k \in DOMAIN store : \A i \in 1 .. Len(store[k]) :
        IF Tombstone(store[k][i])
        THEN store[k][i]["del"] = TRUE /\ "value" \notin DOMAIN store[k][i]
        ELSE "value" \in DOMAIN store[k][i]

----------------------------------------------------------------------------
\* the operations that write or configure
WriteOps == {"set", "del", "set_ts", "lookup_type", "lookup_ts"}

\* C15: a rejected set, delete, set_ts change, lookup type change or lookup
\* timestamp change (one that raises) leaves the history of every key,
\* latest_ts, the pinned timestamp, the lookup type and the lookup timestamp
\* exactly as they were before the call.
C15_RejectedChangesNothing ==
    [][(result = NoCall /\ result'.op \in WriteOps /\ result'.exc # "None") =>
          /\ store' = store
          /\ latest_ts' = latest_ts
          /\ set_ts' = set_ts
          /\ lookup_type' = lookup_type
          /\ lookup_ts' = lookup_ts]_vars

\* a delete of a live key with two records has been rejected for its
\* timestamp, the pin being the timestamp of the key's last record
C15_Witness ==
    /\ result.op = "del"
    /\ result.exc = "ValueError"
    /\ set_ts # None
    /\ Len(store[result.key]) = 2
    /\ set_ts[1] = LastRecord(result.key)["ts"]
    /\ lookup_type = FIRST

----------------------------------------------------------------------------
\* C16: a change of the pinned timestamp to v is accepted exactly when v is
\* an integer >= latest_ts, and then v is the pin; so in every state with a
\* pin, the pin is >= latest_ts and >= the timestamp of every record of
\* every key.
C16_PinAcceptance ==
    /\ [][Called("set_ts") =>
            /\ result'.exc = "None"
                 <=> (result'.value # None /\ result'.value[1] >= latest_ts)
            /\ result'.exc = "None" => set_ts' = result'.value]_vars
    /\ [](set_ts # None =>
            /\ set_ts[1] >= latest_ts
            /\ \A t \in AllTimestamps : set_ts[1] >= t)

\* a change of the pin to an integer below latest_ts has been rejected, the
\* pin in force having been used by a set or delete
C16_Witness ==
    /\ result.op = "set_ts"
    /\ result.exc = "ValueError"
    /\ result.value # None
    /\ set_ts # None
    /\ set_ts[1] = latest_ts
    /\ latest_ts > result.value[1]

----------------------------------------------------------------------------
\* C17: under LAST, after a set(k, v) that returned without error, get(k)
\* returns v, for every v, with lazy update on or off, and also when k's most
\* recent record before the set was a tombstone.
C17_SetThenGet ==
    (result.op = "set" /\ result.exc = "None" /\ lookup_type = LAST) =>
        GetItemResult(result.key) = [exc |-> "None", ret |-> result.value]

----------------------------------------------------------------------------
\* C18: a set, a delete or a change of the pin leaves get as it was when the
\* lookup is not LAST: under FIRST, get(k) for every key that has history;
\* under TIMESTAMP with lookup timestamp T, once latest_ts > T, get(k) for
\* every key.
C18_ReadIndependence ==
    [][(Called("set") \/ Called("del") \/ Called("set_ts")) =>
          /\ lookup_type = FIRST =>
                \A k \in DOMAIN store : GetItemResult(k)' = GetItemResult(k)
          /\ (lookup_type = TIMESTAMP /\ lookup_ts # None
                /\ latest_ts > lookup_ts[1]) =>
                \A k \in Keys : GetItemResult(k)' = GetItemResult(k)]_vars

\* under TIMESTAMP, a set has appended a record after the lookup timestamp
\* to a key that has one before it, and get returns the older value
C18_Witness ==
    /\ result.op = "set"
    /\ result.exc = "None"
    /\ lookup_type = TIMESTAMP
    /\ lookup_ts # None
    /\ Len(store[result.key]) = 2
    /\ store[result.key][1]["ts"] <= lookup_ts[1]
    /\ store[result.key][2]["ts"] > lookup_ts[1]
    /\ GetItemResult(result.key).exc = "None"
    /\ GetItemResult(result.key).ret # result.value

----------------------------------------------------------------------------
\* the store that holds, for every key of the seed dic, one record with
\* timestamp p and the seed value, and nothing else
SeedStore(dic, p) == [k \in DOMAIN dic |-> <<[ts |-> p, value |-> dic[k]]>>]

\* C19 (as stated): after a construction with a pin p and a seed S, every
\* key of S has exactly one record, not a tombstone, with timestamp p and the
\* seed value, no other key has history, and latest_ts is p.
C19_ConstructionAsStated ==
    (result.op = "__init__" /\ result.exc = "None" /\ result.set_ts # None) =>
        /\ store = SeedStore(result.dic, result.set_ts[1])
        /\ latest_ts = result.set_ts[1]

\* C19 (amended): after a construction with a pin p and a seed S, every key
\* of S has exactly one record, not a tombstone, with timestamp p and the
\* seed value, and no other key has history; latest_ts is p when S is not
\* empty and still 0 when S is empty.  The lookup type and lookup timestamp
\* are applied after the seed is written: a construction that fails in one
\* of their setters has written the seed, and one that succeeds has them as
\* given.
C19_Construction ==
    (result.op = "__init__" /\ result.set_ts # None /\ result.set_ts[1] >= 0) =>
        /\ store = SeedStore(result.dic, result.set_ts[1])
        /\ \A k \in DOMAIN store : ~Tombstone(store[k][1])
        /\ set_ts = result.set_ts
        /\ latest_ts = IF DOMAIN result.dic = {} THEN 0 ELSE result.set_ts[1]
        /\ result.exc = "None" =>
             /\ result.lookup_type # 0 => lookup_type = result.lookup_type
             /\ result.lookup_ts # None => lookup_ts = result.lookup_ts

\* a construction with a pin above 0, two seeds and a lookup by timestamp
C19_Witness ==
    /\ result.op = "__init__"
    /\ result.exc = "None"
    /\ result.set_ts = Some(2)
    /\ DOMAIN result.dic = Keys
    /\ lookup_type = TIMESTAMP
    /\ lookup_ts = Some(1)

----------------------------------------------------------------------------
\* C20: for every key with history, the first record is not a tombstone and
\* no two consecutive records are tombstones; so under FIRST get(k) returns
\* for every key with history, and diff never reports DELETED or
\* NON_EXISTENT as the value under FIRST.
C20_FirstRecordLive ==
    /\ \A k \in DOMAIN store :
          /\ ~Tombstone(store[k][1])
          /\ \A i \in 1 .. Len(store[k]) - 1 :
                ~(Tombstone(store[k][i]) /\ Tombstone(store[k][i + 1]))
          /\ lookup_type = FIRST => GetItemResult(k).exc = "None"
    /\ \A k \in DOMAIN DiffResult(FIRST, None) :
          DiffResult(FIRST, None)[k][2] \notin {DELETED, NON_EXISTENT}

====
